---- MODULE Spec2Model ----
(***************************************************************************)
(* A model of brickorm: bootstrap() creates the SQLite schema and then,    *)
(* for every model class of ALL_MODELS in order, downloads the gzip CSV    *)
(* extract, validates every row into an instance, adds the instances to    *)
(* one session and commits.                                                *)
(*                                                                         *)
(* Values are kept as text: a raw CSV cell is a string, a parsed cell and  *)
(* a validated field value are records [k |-> kind, v |-> text].  In a     *)
(* "float" cell v holds the integral part, Python prints it as v \o ".0".  *)
(***************************************************************************)
EXTENDS Integers, Sequences, FiniteSets

\* ------------------------------------------------------------- bounds
\* Longest extract (number of data rows) the remote side serves.
MaxRows == 2
\* Number of times bootstrap() is invoked on the same database file.
MaxRuns == 2

\* --------------------------------------------------------- the schema
\* The order in which bootstrap loads the model classes.
ALL_MODELS_Swapped ==
    << "Part", "Theme", "PartCategory", "Color", "Set", "Element", "Minifig",
       "Inventory", "InventoryPart", "InventoryMinifig", "InventorySet",
       "PartRelationship" >>

ALL_MODELS ==
    << "PartCategory", "Theme", "Part", "Color", "Set", "Element", "Minifig",
       "Inventory", "InventoryPart", "InventoryMinifig", "InventorySet",
       "PartRelationship" >>

Entities == { ALL_MODELS[i] : i \in 1..Len(ALL_MODELS) }

\* One declared column: its name, annotation (int, str, bool, enum),
\* whether it is Optional, its max_length (0: none), whether it is part of
\* the primary key, and the table and column its foreign key names ("": none).
Fld(n, t, opt, ml, pk, fke, fkf) ==
    [name |-> n, type |-> t, nullable |-> opt, maxlen |-> ml, pk |-> pk,
     fkEntity |-> fke, fkField |-> fkf]

PartCategory ==
    << Fld("id", "int", FALSE, 0, TRUE, "", ""),
       Fld("name", "str", FALSE, 200, FALSE, "", "") >>

Part ==
    << Fld("part_num", "str", FALSE, 20, TRUE, "", ""),
       Fld("name", "str", FALSE, 250, FALSE, "", ""),
       Fld("part_cat_id", "int", FALSE, 0, FALSE, "PartCategory", "id") >>

Color ==
    << Fld("id", "int", FALSE, 0, TRUE, "", ""),
       Fld("name", "str", FALSE, 200, FALSE, "", ""),
       Fld("rgb", "str", FALSE, 6, FALSE, "", ""),
       Fld("is_trans", "bool", FALSE, 0, FALSE, "", "") >>

Element ==
    << Fld("element_id", "str", FALSE, 10, TRUE, "", ""),
       Fld("part_num", "str", FALSE, 20, FALSE, "Part", "part_num"),
       Fld("color_id", "int", FALSE, 0, FALSE, "Color", "id") >>

PartRelationship ==
    << Fld("rel_type", "enum", FALSE, 1, TRUE, "", ""),
       Fld("child_part_num", "str", FALSE, 20, TRUE, "Part", "part_num"),
       Fld("parent_part_num", "str", FALSE, 20, TRUE, "Part", "part_num") >>

Minifig ==
    << Fld("fig_num", "str", FALSE, 20, TRUE, "", ""),
       Fld("name", "str", FALSE, 256, FALSE, "", ""),
       Fld("num_parts", "int", FALSE, 0, FALSE, "", "") >>

Set ==
    << Fld("set_num", "str", FALSE, 20, TRUE, "", ""),
       Fld("name", "str", FALSE, 256, FALSE, "", ""),
       Fld("year", "int", FALSE, 0, FALSE, "", ""),
       Fld("theme_id", "int", FALSE, 0, FALSE, "Theme", "id"),
       Fld("num_parts", "int", FALSE, 0, FALSE, "", "") >>

Theme ==
    << Fld("id", "int", FALSE, 0, TRUE, "", ""),
       Fld("name", "str", FALSE, 256, FALSE, "", ""),
       Fld("parent_id", "int", TRUE, 0, FALSE, "Theme", "id") >>

Inventory ==
    << Fld("id", "int", FALSE, 0, TRUE, "", ""),
       Fld("version", "int", FALSE, 0, FALSE, "", ""),
       Fld("set_num", "str", FALSE, 20, FALSE, "Set", "set_num") >>

InventoryPart ==
    << Fld("id", "int", FALSE, 0, TRUE, "", ""),
       Fld("inventory_id", "int", FALSE, 0, FALSE, "Inventory", "id"),
       Fld("part_num", "str", FALSE, 20, FALSE, "Part", "part_num"),
       Fld("color_id", "int", FALSE, 0, FALSE, "Color", "id"),
       Fld("quantity", "int", FALSE, 0, FALSE, "", ""),
       Fld("is_spare", "bool", FALSE, 0, FALSE, "", "") >>

InventoryMinifig ==
    << Fld("id", "int", FALSE, 0, TRUE, "", ""),
       Fld("inventory_id", "int", FALSE, 0, FALSE, "Inventory", "id"),
       Fld("fig_num", "str", FALSE, 20, FALSE, "Minifig", "fig_num"),
       Fld("quantity", "int", FALSE, 0, FALSE, "", "") >>

InventorySet ==
    << Fld("inventory_id", "int", FALSE, 0, TRUE, "Inventory", "id"),
       Fld("set_num", "str", FALSE, 20, TRUE, "Set", "set_num"),
       Fld("quantity", "int", FALSE, 0, FALSE, "", "") >>

\* The PartType enumeration's values.
PartType == {"P", "B", "M", "A", "R", "T"}

Schema(E) ==
    CASE E = "PartCategory" -> PartCategory
      [] E = "Theme" -> Theme
      [] E = "Part" -> Part
      [] E = "Color" -> Color
      [] E = "Set" -> Set
      [] E = "Element" -> Element
      [] E = "Minifig" -> Minifig
      [] E = "Inventory" -> Inventory
      [] E = "InventoryPart" -> InventoryPart
      [] E = "InventoryMinifig" -> InventoryMinifig
      [] E = "InventorySet" -> InventorySet
      [] E = "PartRelationship" -> PartRelationship

FieldSpecs(E) == { Schema(E)[i] : i \in 1..Len(Schema(E)) }
FieldNames(E) == { s.name : s \in FieldSpecs(E) }
FieldSpec(E, f) == CHOOSE s \in FieldSpecs(E) : s.name = f
PkFields(E) == { s.name : s \in { t \in FieldSpecs(E) : t.pk } }
FkSpecs(E) == { s \in FieldSpecs(E) : s.fkEntity # "" }
\* The tables the foreign keys of E name.
Parents(E) == { s.fkEntity : s \in FkSpecs(E) }
Position(E) == CHOOSE i \in 1..Len(ALL_MODELS) : ALL_MODELS[i] = E

\* --------------------------------------------- the remote extracts
\* Texts are strings; Ch(t, i) is the i-th character of t.  The texts the
\* model reads are made of ASCII letters, digits, the space and the
\* characters + - . # / < >.  A number has at most 15 significant digits,
\* an integer at most 18 digits, an exponent at most 2 digits, and no digit
\* separator; a whole float of more than 15 digits is one a float holds
\* exactly.
Ch(t, i) == SubSeq(t, i, i)
Chars(t) == { Ch(t, i) : i \in 1..Len(t) }
Digit == {"0", "1", "2", "3", "4", "5", "6", "7", "8", "9"}
UpperCase ==
    << "A", "B", "C", "D", "E", "F", "G", "H", "I", "J", "K", "L", "M",
       "N", "O", "P", "Q", "R", "S", "T", "U", "V", "W", "X", "Y", "Z" >>
LowerCase ==
    << "a", "b", "c", "d", "e", "f", "g", "h", "i", "j", "k", "l", "m",
       "n", "o", "p", "q", "r", "s", "t", "u", "v", "w", "x", "y", "z" >>

ToLower(c) ==
    IF \E i \in 1..Len(UpperCase) : UpperCase[i] = c
    THEN LowerCase[CHOOSE i \in 1..Len(UpperCase) : UpperCase[i] = c]
    ELSE c

\* t is the lower-case word w, the case of its letters ignored.
EqualsIgnoreCase(t, w) ==
    /\ Len(t) = Len(w)
    /\ \A i \in 1..Len(t) : ToLower(Ch(t, i)) = Ch(w, i)

InIgnoreCase(t, words) == \E w \in words : EqualsIgnoreCase(t, w)

\* t without the spaces around it.
RECURSIVE Trim(_)
Trim(t) ==
    IF t = "" THEN ""
    ELSE IF Ch(t, 1) = " " THEN Trim(SubSeq(t, 2, Len(t)))
    ELSE IF Ch(t, Len(t)) = " " THEN Trim(SubSeq(t, 1, Len(t) - 1))
    ELSE t

Sign(t) == IF t # "" /\ Ch(t, 1) \in {"+", "-"} THEN Ch(t, 1) ELSE ""
Unsigned(t) == IF Sign(t) # "" THEN SubSeq(t, 2, Len(t)) ELSE t
AllDigits(t) == Chars(t) \subseteq Digit

\* An optional sign and one digit or more.
IsIntSyntax(t) == Unsigned(t) # "" /\ AllDigits(Unsigned(t))

\* The position of the first decimal point of t, 0 when it has none.
DotAt(t) ==
    IF "." \in Chars(t)
    THEN CHOOSE i \in 1..Len(t) :
            Ch(t, i) = "." /\ \A j \in 1..(i - 1) : Ch(t, j) # "."
    ELSE 0

IntPart(t) == IF DotAt(t) = 0 THEN t ELSE SubSeq(t, 1, DotAt(t) - 1)
FracPart(t) == IF DotAt(t) = 0 THEN "" ELSE SubSeq(t, DotAt(t) + 1, Len(t))

\* The number of zeros t starts with, and ends with.
RECURSIVE LeadingZeros(_)
LeadingZeros(t) ==
    IF t # "" /\ Ch(t, 1) = "0"
    THEN 1 + LeadingZeros(SubSeq(t, 2, Len(t))) ELSE 0

RECURSIVE TrailingZeros(_)
TrailingZeros(t) ==
    IF t # "" /\ Ch(t, Len(t)) = "0"
    THEN 1 + TrailingZeros(SubSeq(t, 1, Len(t) - 1)) ELSE 0

RECURSIVE Zeros(_)
Zeros(n) == IF n <= 0 THEN "" ELSE "0" \o Zeros(n - 1)

\* Digits without their leading zeros ("0" for zero).
StripLeadingZeros(t) ==
    IF LeadingZeros(t) = Len(t) THEN "0"
    ELSE SubSeq(t, LeadingZeros(t) + 1, Len(t))

\* The number written by the digits t, and the digits of the number n.
DigitChar == << "0", "1", "2", "3", "4", "5", "6", "7", "8", "9" >>
DigitValue(c) == (CHOOSE i \in 1..10 : DigitChar[i] = c) - 1

RECURSIVE TextNat(_)
TextNat(t) ==
    IF t = "" THEN 0
    ELSE 10 * TextNat(SubSeq(t, 1, Len(t) - 1)) + DigitValue(Ch(t, Len(t)))

RECURSIVE NatText(_)
NatText(n) ==
    IF n < 10 THEN DigitChar[n + 1]
    ELSE NatText(n \div 10) \o DigitChar[(n % 10) + 1]

\* Python's str() of the int written t.
IntRepr(t) ==
    LET d == StripLeadingZeros(Unsigned(t))
    IN  IF Sign(t) = "-" /\ d # "0" THEN "-" \o d ELSE d

\* A float is written: sign, mantissa (digits with at most one decimal
\* point), and an optional exponent (e or E, sign, digits).
ExpAt(t) ==
    IF \E i \in 1..Len(t) : Ch(t, i) \in {"e", "E"}
    THEN CHOOSE i \in 1..Len(t) :
            Ch(t, i) \in {"e", "E"}
            /\ \A j \in 1..(i - 1) : Ch(t, j) \notin {"e", "E"}
    ELSE 0

Mantissa(t) ==
    LET u == Unsigned(t)
    IN  IF ExpAt(u) = 0 THEN u ELSE SubSeq(u, 1, ExpAt(u) - 1)

Exponent(t) ==
    LET u == Unsigned(t)
        x == IF ExpAt(u) = 0 THEN "" ELSE SubSeq(u, ExpAt(u) + 1, Len(u))
    IN  IF x = "" THEN 0
        ELSE IF Sign(x) = "-" THEN 0 - TextNat(Unsigned(x))
        ELSE TextNat(Unsigned(x))

IsFloatSyntax(t) ==
    LET u == Unsigned(t)
        m == Mantissa(t)
        ip == IntPart(m)
        fp == FracPart(m)
    IN  /\ Chars(u) \subseteq Digit \cup {".", "e", "E", "+", "-"}
        /\ AllDigits(ip) /\ AllDigits(fp)
        /\ ip \o fp # ""
        /\ ExpAt(u) # 0 => IsIntSyntax(SubSeq(u, ExpAt(u) + 1, Len(u)))

\* The spellings of infinity the parser of floats takes, in any case.
IsInfinity(t) ==
    InIgnoreCase(t, {"inf", "+inf", "-inf",
                     "infinity", "+infinity", "-infinity"})

\* The float written t is 0.d * 10^p with d = FloatDigits(t) starting and
\* ending with a digit that is not zero (d is empty for zero) and
\* p = FloatPoint(t).
FloatDigits(t) ==
    LET d == IntPart(Mantissa(t)) \o FracPart(Mantissa(t))
    IN  SubSeq(d, LeadingZeros(d) + 1, Len(d) - TrailingZeros(d))

FloatPoint(t) ==
    LET m == Mantissa(t)
    IN  Len(IntPart(m)) - LeadingZeros(IntPart(m) \o FracPart(m))
        + Exponent(t)

\* Python's str() of the float written t: the digits with a point, or, for
\* a number below 1e-4 or from 1e16 up, one digit, the others, and the
\* exponent.
FloatRepr(t) ==
    LET d == FloatDigits(t)
        p == FloatPoint(t)
        sg == IF Sign(t) = "-" THEN "-" ELSE ""
        x == p - 1
    IN  CASE IsInfinity(t) -> sg \o "inf"
          [] d = "" -> sg \o "0.0"
          [] p > 16 \/ p <= 0 - 4 ->
                sg \o Ch(d, 1)
                \o (IF Len(d) > 1 THEN "." \o SubSeq(d, 2, Len(d)) ELSE "")
                \o "e" \o (IF x < 0 THEN "-" ELSE "+")
                \o (IF x > 0 - 10 /\ x < 10 THEN "0" ELSE "")
                \o NatText(IF x < 0 THEN 0 - x ELSE x)
          [] p <= 0 -> sg \o "0." \o Zeros(0 - p) \o d
          [] p >= Len(d) -> sg \o d \o Zeros(p - Len(d)) \o ".0"
          [] OTHER -> sg \o SubSeq(d, 1, p) \o "." \o SubSeq(d, p + 1, Len(d))

\* The float printed r is a whole number.
IsIntegral(r) ==
    ~IsInfinity(r)
    /\ (FloatDigits(r) = "" \/ Len(FloatDigits(r)) <= FloatPoint(r))

\* The digits of the whole float printed r (one it holds exactly).
WholeDigits(r) ==
    IF FloatDigits(r) = "" THEN "0"
    ELSE FloatDigits(r) \o Zeros(FloatPoint(r) - Len(FloatDigits(r)))

\* a < b for two numbers written with as many digits.
RECURSIVE DigitsLess(_, _)
DigitsLess(a, b) ==
    /\ a # ""
    /\ \/ DigitValue(Ch(a, 1)) < DigitValue(Ch(b, 1))
       \/ /\ Ch(a, 1) = Ch(b, 1)
          /\ DigitsLess(SubSeq(a, 2, Len(a)), SubSeq(b, 2, Len(b)))

\* pydantic turns a whole float into an int when it is below 2^63 in
\* magnitude.
Int64Limit == "9223372036854775808"
FitsInt64(r) ==
    \/ Len(WholeDigits(r)) < Len(Int64Limit)
    \/ /\ Len(WholeDigits(r)) = Len(Int64Limit)
       /\ DigitsLess(WholeDigits(r), Int64Limit)

\* The int equal to the whole float printed r.
FloatAsInt(r) == IntRepr(Sign(r) \o WholeDigits(r))

\* The cells pandas.read_csv reads as missing (its default na_values).
NaText ==
    {"", "#N/A", "#N/A N/A", "#NA", "-1.#IND", "-1.#QNAN", "-NaN", "-nan",
     "1.#IND", "1.#QNAN", "<NA>", "N/A", "NA", "NULL", "NaN", "None", "n/a",
     "nan", "null"}

\* The cells pandas.read_csv reads as booleans: its default true_values
\* and false_values, and the words true and false in any case.
true_values == {"True", "TRUE", "true"}
false_values == {"False", "FALSE", "false"}
PandasTrue(t) == t \in true_values \/ EqualsIgnoreCase(t, "true")
PandasFalse(t) == t \in false_values \/ EqualsIgnoreCase(t, "false")

\* The texts a cell of column f of E's extract takes in the model.
RawDomain(E, f) ==
    LET s == FieldSpec(E, f)
        key == s.pk \/ s.fkEntity # ""
    IN  CASE E = "Element" /\ f = "element_id" -> {"", "1", "2"}
          [] E = "Part" /\ f = "part_num" -> {"", "a", "b", "7"}
          [] E = "Color" /\ f = "rgb" -> {"", "05131D", "05131D0"}
          [] E = "Set" /\ f = "year" -> {"", "5", "x", " -10"}
          [] E = "Color" /\ f = "is_trans" -> {"", "t", "True", "F"}
          [] s.type = "enum" -> {"", "P", "B", "X"}
          [] s.type = "bool" -> {"", "t"}
          [] s.type = "int" /\ key -> {"", "1", "2"}
          [] s.type = "str" /\ key -> {"", "a", "b"}
          [] s.type = "int" -> {"", "5"}
          [] OTHER -> {"", "n"}

\* The row of a well-formed extract: every key is the first key, every
\* other column holds a valid sample, a nullable column is empty.
BaseRow(E) ==
    [ f \in FieldNames(E) |->
        LET s == FieldSpec(E, f)
        IN  CASE s.nullable -> ""
              [] E = "Element" /\ f = "element_id" -> "1"
              [] E = "Color" /\ f = "rgb" -> "05131D"
              [] s.type = "enum" -> "P"
              [] s.type = "bool" -> "t"
              [] s.type = "int" /\ (s.pk \/ s.fkEntity # "") -> "1"
              [] s.type = "str" /\ (s.pk \/ s.fkEntity # "") -> "a"
              [] s.type = "int" -> "5"
              [] OTHER -> "n" ]

\* The rows of the model: the base row with at most one cell changed.
Rows(E) ==
    {BaseRow(E)} \cup
    UNION { { [BaseRow(E) EXCEPT ![f] = x] : x \in RawDomain(E, f) }
            : f \in FieldNames(E) }

SeqsUpTo(S, n) == UNION { [1..k -> S] : k \in 0..n }

Batches(E) == SeqsUpTo(Rows(E), MaxRows)

\* What the URL of E serves: a body that is gzip or not, and its rows.
Content(gz, rows) == [known |-> TRUE, gz |-> gz, rows |-> rows]
Unknown == [known |-> FALSE, gz |-> TRUE, rows |-> << >>]
Baseline(E) == Content(TRUE, << BaseRow(E) >>)
AllContents(E) ==
    {Content(FALSE, << >>)} \cup { Content(TRUE, b) : b \in Batches(E) }

\* ----------------------------------------------- download_instances
\* pd.read_csv infers one dtype per column from the cells that are not
\* missing: int64 when all are integers and none is missing, float64 when
\* all are numbers, bool when all are boolean words, object (the texts as
\* they are) otherwise.  A missing cell is NaN.
TextKind(t) ==
    LET u == Trim(t)
    IN  CASE IsIntSyntax(u) -> "int"
          [] IsFloatSyntax(u) \/ IsInfinity(t) -> "float"
          [] PandasTrue(t) \/ PandasFalse(t) -> "bool"
          [] OTHER -> "str"

ColumnKind(rows, f) ==
    LET cells == { rows[i][f] : i \in 1..Len(rows) }
        kinds == { TextKind(t) : t \in cells \ NaText }
    IN  CASE kinds \subseteq {"int"} ->
                IF cells \cap NaText = {} THEN "int" ELSE "float"
          [] kinds \subseteq {"int", "float"} -> "float"
          [] kinds \subseteq {"bool"} -> "bool"
          [] OTHER -> "str"

\* The value of a cell of a column of kind k; v is what str() prints.
CellValue(k, t) ==
    CASE k = "int" -> [k |-> "int", v |-> IntRepr(Trim(t))]
      [] k = "float" ->
            [k |-> "float",
             v |-> FloatRepr(IF IsInfinity(t) THEN t ELSE Trim(t))]
      [] k = "bool" ->
            [k |-> "bool", v |-> IF PandasTrue(t) THEN "True" ELSE "False"]
      [] OTHER -> [k |-> "str", v |-> t]

read_csv(rows) ==
    LET fields == UNION { DOMAIN rows[i] : i \in 1..Len(rows) }
        kind == [ f \in fields |-> ColumnKind(rows, f) ]
    IN  [ i \in 1..Len(rows) |->
            [ f \in DOMAIN rows[i] |->
                IF rows[i][f] \in NaText
                THEN [k |-> "nan", v |-> "nan"]
                ELSE CellValue(kind[f], rows[i][f]) ] ]

\* d = {k: (v if not pd.isna(v) else None) ...}
to_dict(row) ==
    [ f \in DOMAIN row |->
        IF row[f].k = "nan" THEN [k |-> "none", v |-> "None"] ELSE row[f] ]

\* Python's str() of a value.
PyStr(val) == val.v

\* Element.convert_id, the mode="before" validator.
convert_id(E, d) ==
    IF E = "Element"
    THEN [d EXCEPT !["element_id"] = [k |-> "str", v |-> PyStr(@)]]
    ELSE d

\* The strings pydantic reads as a bool, whatever the case of their
\* letters.
BoolTrue == {"1", "on", "t", "true", "y", "yes"}
BoolFalse == {"0", "off", "f", "false", "n", "no"}

\* pydantic reads the string t as an int: the spaces around it dropped,
\* an integer, or an integer followed by a decimal point and zeros (one at
\* least).  Zeros in front of a minus sign are dropped when no minus sign
\* precedes them and the digits after the sign have no zero in front.
CleanInt(u) ==
    LET r == Unsigned(u)
        z == LeadingZeros(r)
    IN  IF Sign(u) # "-" /\ z >= 1 /\ z < Len(r) /\ Ch(r, z + 1) = "-"
        THEN SubSeq(r, z + 1, Len(r))
        ELSE u

StrIsInt(t) ==
    LET u == Trim(t)
        c == CleanInt(u)
        w == Unsigned(IntPart(c))
    IN  /\ \/ IsIntSyntax(c)
           \/ /\ DotAt(c) # 0
              /\ FracPart(c) # ""
              /\ Chars(FracPart(c)) \subseteq {"0"}
              /\ IsIntSyntax(IntPart(c))
        /\ c # u => (w = "0" \/ Ch(w, 1) # "0")

\* The int pydantic reads from the string t.
StrAsInt(t) == IntRepr(IntPart(CleanInt(Trim(t))))

\* Whether pydantic (lax mode) accepts val for the declared field.
FieldOk(s, val) ==
    CASE val.k = "none" -> s.nullable
      [] val.k = "nan" -> FALSE
      [] s.type = "int" ->
            \/ val.k \in {"int", "bool"}
            \/ val.k = "float" /\ IsIntegral(val.v) /\ FitsInt64(val.v)
            \/ val.k = "str" /\ StrIsInt(val.v)
      [] s.type = "str" ->
            val.k = "str" /\ (s.maxlen = 0 \/ Len(val.v) <= s.maxlen)
      [] s.type = "bool" ->
            \/ val.k = "bool"
            \/ val.k = "str" /\ InIgnoreCase(val.v, BoolTrue \cup BoolFalse)
            \/ val.k = "int" /\ val.v \in {"0", "1"}
            \/ val.k = "float" /\ val.v \in {"0.0", "-0.0", "1.0"}
      [] s.type = "enum" ->
            val.k = "str" /\ val.v \in PartType /\ Len(val.v) <= s.maxlen

\* The validated value.
Coerce(s, val) ==
    CASE val.k = "none" -> [k |-> "null", v |-> ""]
      [] s.type = "bool" ->
            [k |-> "bool",
             v |-> IF \/ val.k = "bool" /\ val.v = "True"
                      \/ val.k = "str" /\ InIgnoreCase(val.v, BoolTrue)
                      \/ val.k \in {"int", "float"} /\ val.v \in {"1", "1.0"}
                   THEN "true" ELSE "false"]
      [] s.type = "int" ->
            [k |-> "int",
             v |-> CASE val.k = "float" -> FloatAsInt(val.v)
                     [] val.k = "bool" ->
                           IF val.v = "True" THEN "1" ELSE "0"
                     [] val.k = "str" -> StrAsInt(val.v)
                     [] OTHER -> val.v]
      [] OTHER -> [k |-> s.type, v |-> val.v]

RowValid(E, d) ==
    LET x == convert_id(E, d)
    IN  \A f \in FieldNames(E) : FieldOk(FieldSpec(E, f), x[f])

\* cls.model_validate(d) for a row it accepts.
model_validate(E, d) ==
    LET x == convert_id(E, d)
    IN  [ f \in FieldNames(E) |-> Coerce(FieldSpec(E, f), x[f]) ]

\* The instances of an extract whose rows all validate.
Instances(E, rows) ==
    LET df == read_csv(rows)
    IN  [ i \in 1..Len(rows) |-> model_validate(E, to_dict(df[i])) ]

AllRowsValid(E, rows) ==
    LET df == read_csv(rows)
    IN  \A i \in 1..Len(rows) : RowValid(E, to_dict(df[i]))

\* if not r.ok: raise
ResponseFails(ok) == ~ok

\* What one call of E.download_instances() ends in, given the response's
\* ok flag and the body served.
download_result(E, ok, c) ==
    CASE ResponseFails(ok) -> [status |-> "fetch", models |-> << >>]
      [] ~c.gz -> [status |-> "decode", models |-> << >>]
      [] ~AllRowsValid(E, c.rows) -> [status |-> "validate", models |-> << >>]
      [] OTHER -> [status |-> "ok", models |-> Instances(E, c.rows)]

\* ------------------------------------------------------ the program
VARIABLES
    schema,     \* the tables that exist in the database file
    db,         \* db[E]: the committed rows of E's table, in insertion order
    remote,     \* remote[E]: what E's URL serves, once a response showed it
    pc,         \* where bootstrap() stands
    idx,        \* the position in ALL_MODELS of the model being loaded
    instances,  \* the instances download_instances returned, not yet added
    pending,    \* the instances added to the session, not yet committed
    runNo,      \* how many times bootstrap() was called
    startDb,    \* db as it was when the current call began
    fetched,    \* fetched[E]: requests for E's URL in the current call
    committed,  \* committed[E]: commits of E's unit of work in this call
    failedAt,   \* the model whose load raised ("": none)
    cause       \* what raised: fetch, decode, validate, commit ("": none)

vars == << schema, db, remote, pc, idx, instances, pending, runNo, startDb,
           fetched, committed, failedAt, cause >>

\* create_engine("sqlite:///path"): SQLite enforces no foreign key unless
\* PRAGMA foreign_keys is switched on for the connection, which it is not.
ForeignKeysEnforced_On == TRUE

ForeignKeysEnforced == FALSE

PrimaryKey(E, rec) == [ f \in PkFields(E) |-> rec[f] ]

SeqToSet(q) == { q[i] : i \in 1..Len(q) }

\* Row i of the flush collides with a row of the table or an earlier row
\* of the same flush (UNIQUE constraint failed).
UniqueViolation_TableOnly(E, table, rows, i) ==
    \E j \in 1..Len(table) :
        PrimaryKey(E, table[j]) = PrimaryKey(E, rows[i])

UniqueViolation(E, table, rows, i) ==
    \/ \E j \in 1..Len(table) :
            PrimaryKey(E, table[j]) = PrimaryKey(E, rows[i])
    \/ \E j \in 1..(i - 1) :
            PrimaryKey(E, rows[j]) = PrimaryKey(E, rows[i])

\* Row i names, in a foreign key that is not NULL, a parent row that exists
\* neither in the database nor among the rows inserted before it or with it.
ForeignKeyViolation(E, d, rows, i) ==
    \E s \in FkSpecs(E) :
        /\ rows[i][s.name].k # "null"
        /\ LET parent ==
                   SeqToSet(d[s.fkEntity]) \cup
                   (IF s.fkEntity = E
                    THEN { rows[j] : j \in 1..i } ELSE {})
           IN  \A p \in parent : p[s.fkField] # rows[i][s.name]

\* The first row whose INSERT fails, 0 when the flush succeeds.
FirstFailingRow(E, d, rows) ==
    LET bad == { i \in 1..Len(rows) :
                    \/ UniqueViolation(E, d[E], rows, i)
                    \/ ForeignKeysEnforced /\ ForeignKeyViolation(E, d, rows, i) }
    IN  IF bad = {} THEN 0 ELSE CHOOSE i \in bad : \A j \in bad : i <= j

\* The database after the exception leaves the with-block: the session is
\* closed and its transaction rolled back.  s is the database as it was
\* when bootstrap() was called.
rollback_Partial(d, s, E, rows) ==
    [d EXCEPT ![E] = @ \o SubSeq(rows, 1, FirstFailingRow(E, d, rows) - 1)]

rollback_AllOfRun(d, s, E, rows) == s

rollback(d, s, E, rows) == d

\* for model in ALL_MODELS: the position after i.
NextIndex_Skip(i) == i + 2

NextIndex(i) == i + 1

\* An exception of download_instances or commit is not caught: it ends
\* bootstrap().  The place bootstrap() is at after an exception at i.
AfterError_Continue(i) ==
    IF i >= Len(ALL_MODELS)
    THEN [pc |-> "failed", idx |-> i]
    ELSE [pc |-> "download", idx |-> i + 1]

AfterError(i) == [pc |-> "failed", idx |-> i]

Zero == [ E \in Entities |-> 0 ]

Init ==
    /\ schema = {}
    /\ db = [ E \in Entities |-> << >> ]
    /\ remote = [ E \in Entities |-> Unknown ]
    /\ pc = "idle"
    /\ idx = 1
    /\ instances = << >>
    /\ pending = << >>
    /\ runNo = 0
    /\ startDb = [ E \in Entities |-> << >> ]
    /\ fetched = Zero
    /\ committed = Zero
    /\ failedAt = ""
    /\ cause = ""

\* SQLModel.metadata.create_all(engine): creates the tables that do not
\* exist and leaves an existing table, with its rows, as it is.
create_all(tables, d) == [schema |-> tables \cup Entities, db |-> d]

\* bootstrap(path), up to the first iteration of the loop.
bootstrap ==
    /\ pc \in {"idle", "done", "failed"}
    /\ runNo < MaxRuns
    /\ LET c == create_all(schema, db)
       IN  /\ schema' = c.schema
           /\ db' = c.db
           /\ startDb' = c.db
    /\ runNo' = runNo + 1
    /\ pc' = "download"
    /\ idx' = 1
    /\ instances' = << >>
    /\ pending' = << >>
    /\ fetched' = Zero
    /\ committed' = Zero
    /\ failedAt' = ""
    /\ cause' = ""
    /\ UNCHANGED remote

\* The extracts differ from the well-formed ones in at most one entity.
Deviates(c, E) == c.known /\ c # Baseline(E)

\* What a first response for E may show; a later one shows the same.
RemoteChoices(E) ==
    IF remote[E].known THEN {remote[E]}
    ELSE IF \E e \in Entities : Deviates(remote[e], e)
         THEN {Baseline(E)}
         ELSE AllContents(E)

\* The exception leaves bootstrap(): nothing pending survives.
Raise(E, why, rows) ==
    /\ db' = rollback(db, startDb, E, rows)
    /\ pc' = AfterError(idx).pc
    /\ idx' = AfterError(idx).idx
    /\ failedAt' = E
    /\ cause' = why
    /\ instances' = << >>
    /\ pending' = << >>

\* model.download_instances(): the request, gzip, read_csv and the
\* validation of every row.
download_instances ==
    /\ pc = "download"
    /\ LET E == ALL_MODELS[idx]
       IN  \E ok \in BOOLEAN : \E c \in RemoteChoices(E) :
             LET r == download_result(E, ok, c)
             IN  /\ fetched' = [fetched EXCEPT ![E] = @ + 1]
                 /\ remote' = IF ResponseFails(ok) THEN remote
                              ELSE [remote EXCEPT ![E] = c]
                 /\ IF r.status = "ok"
                    THEN /\ instances' = r.models
                         /\ pc' = "add"
                         /\ UNCHANGED << db, idx, pending, failedAt, cause >>
                    ELSE Raise(E, r.status, << >>)
    /\ UNCHANGED << schema, runNo, startDb, committed >>

\* session.add(instance), one iteration of the inner loop.
session_add ==
    /\ pc = "add"
    /\ instances # << >>
    /\ pending' = Append(pending, Head(instances))
    /\ instances' = Tail(instances)
    /\ UNCHANGED << schema, db, remote, pc, idx, runNo, startDb, fetched,
                    committed, failedAt, cause >>

\* session.commit(): the pending instances are inserted in the order they
\* were added and the transaction is committed, or the first failing
\* INSERT raises IntegrityError.  After the last model bootstrap() returns.
session_commit ==
    /\ pc = "add"
    /\ instances = << >>
    /\ LET E == ALL_MODELS[idx]
       IN  IF FirstFailingRow(E, db, pending) # 0
           THEN /\ Raise(E, "commit", pending)
                /\ UNCHANGED committed
           ELSE /\ db' = [db EXCEPT ![E] = @ \o pending]
                /\ committed' = [committed EXCEPT ![E] = @ + 1]
                /\ pending' = << >>
                /\ idx' = NextIndex(idx)
                /\ pc' = IF NextIndex(idx) > Len(ALL_MODELS)
                         THEN "done" ELSE "download"
                /\ UNCHANGED << instances, failedAt, cause >>
    /\ UNCHANGED << schema, remote, runNo, startDb, fetched >>

Next == bootstrap \/ download_instances \/ session_add \/ session_commit

Spec == Init /\ [][Next]_vars

\* ------------------------------------------------------- the claims
\* The call in progress began on a database without rows.
Fresh == runNo >= 1 /\ \A E \in Entities : startDb[E] = << >>

\* E's extract was served and is a gzip CSV whose rows all validate.
SourceValid(E) ==
    remote[E].known /\ remote[E].gz /\ AllRowsValid(E, remote[E].rows)

\* The instances of E's extract.
SourceInstances(E) == Instances(E, remote[E].rows)

\* Two rows of E's extract carry the same primary key.
SourceHasDuplicateKey(E) ==
    \E i, j \in 1..Len(remote[E].rows) :
        /\ i < j
        /\ \A f \in PkFields(E) : remote[E].rows[i][f] = remote[E].rows[j][f]

\* The entities after E in the loading order.
After(E) == { F \in Entities : Position(F) > Position(E) }

\* E has a chain of foreign keys, over other entities, that ends in P.
RECURSIVE DependsOn(_, _, _)
DependsOn(E, P, n) ==
    \/ P \in Parents(E) \ {E}
    \/ n > 0 /\ \E Q \in Parents(E) \ {E} : DependsOn(Q, P, n - 1)

Dependents(P) == { E \in Entities : DependsOn(E, P, Len(ALL_MODELS)) }

\* C1: every table holds none of the rows of its entity's extract or all of
\* them, in every state of a run; a load that fails (fetch, gzip, validation
\* or commit) has committed no row of its entity, and nothing of the
\* aborted unit of work stays pending.
C1_AllOrNothing ==
    /\ \A E \in Entities :
          \/ db[E] = << >>
          \/ SourceValid(E) /\ db[E] = SourceInstances(E)
    /\ failedAt # "" =>
          /\ pc = "failed"
          /\ committed[failedAt] = 0
          /\ db[failedAt] = startDb[failedAt]
          /\ Fresh => db[failedAt] = << >>
          /\ pending = << >> /\ instances = << >>

\* C1's case: on an empty database the commit of a two-row Part extract
\* failed, after PartCategory was committed.
C1_Witness ==
    /\ runNo = 1 /\ pc = "failed" /\ failedAt = "Part" /\ cause = "commit"
    /\ Len(remote["Part"].rows) = 2
    /\ db["Part"] = << >>
    /\ Len(db["PartCategory"]) = 1

\* C2: every other entity a foreign key of E names stands before E in
\* ALL_MODELS, and once E's rows are committed in a run that parent's unit
\* of work has been committed in the same run.
C2_ParentsFirst ==
    \A E \in Entities : \A P \in Parents(E) \ {E} :
        /\ Position(P) < Position(E)
        /\ committed[E] > 0 => committed[P] > 0

\* C2's case: the last entity, which names Part twice, is committed.
C2_Witness ==
    /\ committed["PartRelationship"] = 1
    /\ committed["Part"] = 1
    /\ db["PartRelationship"] # << >>

\* C3: when the request for Part fails in a run on an empty database, the
\* run ends in the error, PartCategory and Theme hold their whole extracts
\* and Part and everything depending on it hold nothing; and whatever
\* fails, the tables committed earlier in the run keep exactly what was
\* committed and the others what they held before the run.
C3_FailureIsolation ==
    /\ (failedAt = "Part" /\ cause = "fetch" /\ Fresh) =>
          /\ pc = "failed"
          /\ \A E \in {"PartCategory", "Theme"} :
                SourceValid(E) /\ committed[E] = 1 /\ db[E] = SourceInstances(E)
          /\ \A E \in {"Part"} \cup Dependents("Part") : db[E] = << >>
          /\ {"Element", "InventoryPart", "PartRelationship"}
                \subseteq Dependents("Part")
    /\ failedAt # "" =>
          \A E \in Entities :
             db[E] = IF committed[E] > 0
                     THEN startDb[E] \o SourceInstances(E)
                     ELSE startDb[E]

\* C3's case: the request for Part failed after PartCategory and Theme
\* were committed with their rows.
C3_Witness ==
    /\ runNo = 1 /\ pc = "failed" /\ failedAt = "Part" /\ cause = "fetch"
    /\ db["PartCategory"] # << >> /\ db["Theme"] # << >>
    /\ db["Part"] = << >>

\* C4: a run on a database that holds rows of an earlier run rebuilds it:
\* it does not fail on an extract that was served, decodes, validates and
\* has distinct keys, and when it returns every table holds exactly its
\* extract.
C4_RerunRebuilds ==
    (runNo >= 2 /\ \E E \in Entities : startDb[E] # << >>) =>
        /\ (pc = "failed" /\ cause = "commit") =>
              SourceHasDuplicateKey(failedAt)
        /\ pc = "done" =>
              \A E \in Entities : db[E] = SourceInstances(E)

\* C5: a row whose cell for a non-nullable field is missing raises in
\* validation: an extract with such a row never yields instances, pending
\* or committed.
C5_MissingRequiredRejected ==
    \A E \in Entities :
        (/\ remote[E].known /\ remote[E].gz
         /\ \E i \in 1..Len(remote[E].rows) : \E f \in FieldNames(E) :
               /\ ~FieldSpec(E, f).nullable
               /\ remote[E].rows[i][f] \in NaText)
        => /\ db[E] = << >>
           /\ ~(pc = "add" /\ ALL_MODELS[idx] = E)

\* C6: every foreign key of a committed row that is not NULL is the key of
\* a committed row of the table it names.
C6_ReferentialIntegrity ==
    \A E \in Entities : \A i \in 1..Len(db[E]) : \A s \in FkSpecs(E) :
        db[E][i][s.name].k # "null" =>
            \E j \in 1..Len(db[s.fkEntity]) :
                db[s.fkEntity][j][s.fkField] = db[E][i][s.name]

\* C7: bootstrap returns exactly when each of the twelve entities was
\* committed, each fetched and committed once; the first failure ends the
\* run, and nothing after the failing entity is fetched or committed.
C7_AllOrAbort ==
    /\ Len(ALL_MODELS) = 12
    /\ pc = "done" <=> \A E \in Entities : committed[E] = 1
    /\ pc = "done" => \A E \in Entities : fetched[E] = 1
    /\ \A E \in Entities :
          fetched[E] <= 1 /\ committed[E] <= fetched[E]
    /\ failedAt # "" =>
          /\ pc = "failed"
          /\ committed[failedAt] = 0
          /\ \A E \in After(failedAt) : fetched[E] = 0 /\ committed[E] = 0
    /\ pc = "failed" => failedAt # ""

\* C7's case: a run returned.
C7_Witness ==
    /\ pc = "done" /\ runNo = 1
    /\ \A E \in Entities : db[E] # << >>

\* Two of the instances carry the same primary key.
HasDuplicateKey(E, rows) ==
    \E i, j \in 1..Len(rows) :
        i < j /\ PrimaryKey(E, rows[i]) = PrimaryKey(E, rows[j])

\* C8: on an empty theme table the commit of Theme instances with distinct
\* ids succeeds, whatever their parent_id (NULL, the id of a row added
\* before or after, in either order).
C8_ThemeSelfReference ==
    /\ (pc = "add" /\ ALL_MODELS[idx] = "Theme" /\ instances = << >>
        /\ db["Theme"] = << >> /\ ~HasDuplicateKey("Theme", pending))
          => FirstFailingRow("Theme", db, pending) = 0
    /\ (failedAt = "Theme" /\ cause = "commit" /\ startDb["Theme"] = << >>)
          => SourceHasDuplicateKey("Theme")

\* C8's case: two themes are committed, the first row naming the second as
\* its parent, the second with no parent.
C8_Witness ==
    /\ committed["Theme"] = 1
    /\ Len(db["Theme"]) = 2
    /\ db["Theme"][1]["parent_id"] = db["Theme"][2]["id"]
    /\ db["Theme"][2]["parent_id"].k = "null"

\* C9: no two committed rows of a table share the primary key (all its
\* columns), and an extract with two rows of the same key commits nothing.
C9_PrimaryKeysUnique ==
    \A E \in Entities :
        /\ ~HasDuplicateKey(E, db[E])
        /\ (remote[E].known /\ remote[E].gz /\ SourceHasDuplicateKey(E)) =>
              /\ db[E] = << >>
              /\ committed[E] = 0
              /\ fetched[E] = 1 =>
                    (failedAt = E \/ (pc = "add" /\ ALL_MODELS[idx] = E))

\* C9's case: the commit of an InventorySet extract with the same
\* (inventory_id, set_num) twice failed.
C9_Witness ==
    /\ pc = "failed" /\ failedAt = "InventorySet" /\ cause = "commit"
    /\ runNo = 1
    /\ SourceHasDuplicateKey("InventorySet")
    /\ db["InventorySet"] = << >>

\* C10: in a run on an empty database the committed entities are those
\* before the current position of ALL_MODELS, only they hold rows, after a
\* failure every later entity is empty, and the tables of all entities
\* exist before the first request.
C10_PrefixOrder ==
    /\ (\E E \in Entities : fetched[E] > 0) => schema = Entities
    /\ pc # "idle" => schema = Entities
    /\ \A E \in Entities :
          committed[E] > 0 <=> (pc # "idle" /\ Position(E) < idx)
    /\ Fresh =>
          /\ \A E \in Entities : db[E] # << >> => committed[E] > 0
          /\ failedAt # "" =>
                \A E \in After(failedAt) : db[E] = << >>

\* C10's case: Part failed, so Color and Minifig, which no foreign key
\* links to Part, are empty while Theme is loaded.
C10_Witness ==
    /\ runNo = 1 /\ pc = "failed" /\ failedAt = "Part"
    /\ db["Theme"] # << >>
    /\ db["Color"] = << >> /\ db["Minifig"] = << >>
    /\ fetched["Color"] = 0

====
